---- MODULE Spec2Model ----
(***************************************************************************)
(* A model of the volatility estimator: the EWMA scan of EWMA.py and the   *)
(* MacroEventAnalyzer of MacroEventAnalyzer.py.                            *)
(*                                                                         *)
(* Floats are modelled as exact rationals with the IEEE special values the *)
(* code can meet: NaN (the missing-value marker) and the two infinities.   *)
(* Closes are powers of two, so that a log return is an exact integer in   *)
(* units of ln 2; square roots are rounded down to 1/SqrtScale.            *)
(* Dates are day ordinals.                                                 *)
(***************************************************************************)
EXTENDS Integers, Sequences, FiniteSets, TLC

\* ------------------------------------------------------------ bounds
MaxLen == 4
MaxExp == 1
MaxEvents == 3
MaxWindow == 2
LambdaDen == 4
SqrtScale == 10

\* ------------------------------------------------- program constants
AnnualizationDays == 252
DefaultTradingPeriods == 252

\* ------------------------------------------------------------ floats
NaN == [nan |-> TRUE, n |-> 0, d |-> 1]

Abs(x) == IF x < 0 THEN -x ELSE x

RECURSIVE GCD(_, _)
GCD(a, b) == IF b = 0 THEN a ELSE GCD(b, a % b)

\* The float n/d in lowest terms, d > 0; d = 0 stands for an infinity.
Frac(n, d) ==
    LET g == GCD(Abs(n), Abs(d))
        s == IF d < 0 THEN -1 ELSE 1
    IN  [nan |-> FALSE, n |-> s * (Abs(n) \div g) * (IF n < 0 THEN -1 ELSE 1),
         d |-> Abs(d) \div g]

Int2F(k) == Frac(k, 1)
Zero == Int2F(0)
Inf == [nan |-> FALSE, n |-> 1, d |-> 0]
NegInf == [nan |-> FALSE, n |-> -1, d |-> 0]

isnan(a) == a.nan
IsInf(a) == ~a.nan /\ a.d = 0
IsFinite(a) == ~a.nan /\ a.d # 0
Sign(k) == IF k > 0 THEN 1 ELSE IF k < 0 THEN -1 ELSE 0

FNeg(a) == IF a.nan THEN NaN ELSE [a EXCEPT !.n = -a.n]

FAdd(a, b) ==
    IF a.nan \/ b.nan THEN NaN
    ELSE IF a.d = 0 /\ b.d = 0 THEN (IF a.n = b.n THEN a ELSE NaN)
    ELSE IF a.d = 0 THEN a
    ELSE IF b.d = 0 THEN b
    ELSE Frac(a.n * b.d + b.n * a.d, a.d * b.d)

FSub(a, b) == FAdd(a, FNeg(b))

FMul(a, b) ==
    IF a.nan \/ b.nan THEN NaN
    ELSE IF a.d = 0 \/ b.d = 0
         THEN (IF a.n = 0 \/ b.n = 0 THEN NaN
               ELSE [nan |-> FALSE, n |-> Sign(a.n) * Sign(b.n), d |-> 0])
    ELSE Frac(a.n * b.n, a.d * b.d)

\* numpy float division: x/0 is an infinity, 0/0 and inf/inf are NaN.
FInv(a) ==
    IF a.nan THEN NaN
    ELSE IF a.d = 0 THEN Zero
    ELSE IF a.n = 0 THEN Inf
    ELSE Frac(a.d, a.n)

FDiv(a, b) == FMul(a, FInv(b))

\* Comparisons: every ordered comparison with NaN is False, != is True.
FGt(a, b) == ~a.nan /\ ~b.nan /\ a.n * b.d > b.n * a.d
FGe(a, b) == ~a.nan /\ ~b.nan /\ a.n * b.d >= b.n * a.d
FNe(a, b) == a.nan \/ b.nan \/ a # b

\* The integer square root of x >= 0, by bisection of lo..hi.
RECURSIVE ISqrtIn(_, _, _)
ISqrtIn(x, lo, hi) ==
    IF lo >= hi THEN lo
    ELSE LET mid == (lo + hi + 1) \div 2
         IN  IF mid * mid <= x THEN ISqrtIn(x, mid, hi) ELSE ISqrtIn(x, lo, mid - 1)
ISqrt(x) == ISqrtIn(x, 0, x)

\* sqrt, rounded down to a multiple of 1/SqrtScale; NaN below zero.
FSqrt(a) ==
    IF a.nan \/ a.n < 0 THEN NaN
    ELSE IF a.d = 0 THEN Inf
    ELSE Frac(ISqrt((a.n * SqrtScale * SqrtScale) \div a.d), SqrtScale)

RECURSIVE Log2(_)
Log2(m) == IF m <= 1 THEN 0 ELSE 1 + Log2(m \div 2)

\* ln in units of ln 2, exact on the powers of two the closes produce.
FLog(a) ==
    IF a.nan \/ a.n < 0 THEN NaN
    ELSE IF a.d = 0 THEN Inf
    ELSE IF a.n = 0 THEN NegInf
    ELSE Int2F(Log2(a.n) - Log2(a.d))

\* The annualisation factor, np.sqrt(252).
sqrt_252 == FSqrt(Int2F(AnnualizationDays))

\* ------------------------------------------------------------ series
\* A pandas Series is modelled by the sequence of its values, aligned to
\* the index of the frame it was derived from.
\* A slip of shift: the series is not moved at all.
shift_none(s) == s

shift(s) == [t \in 1..Len(s) |-> IF t = 1 THEN NaN ELSE s[t - 1]]
SeriesDiv(a, b) == [t \in 1..Len(a) |-> FDiv(a[t], b[t])]
SeriesLog(a) == [t \in 1..Len(a) |-> FLog(a[t])]
SeriesSquare(a) == [t \in 1..Len(a) |-> FMul(a[t], a[t])]

RECURSIVE SelectMask(_, _)
SelectMask(s, mask) ==
    IF s = <<>> THEN <<>>
    ELSE (IF Head(mask) THEN <<Head(s)>> ELSE <<>>)
         \o SelectMask(Tail(s), Tail(mask))

dropna(s) == SelectMask(s, [t \in 1..Len(s) |-> ~isnan(s[t])])

RECURSIVE FSum(_)
FSum(s) == IF s = <<>> THEN Zero ELSE FAdd(Head(s), FSum(Tail(s)))

\* Series.mean(): the mean of the values that are not NaN, NaN if none.
mean(s) ==
    LET v == dropna(s)
    IN  IF v = <<>> THEN NaN ELSE FDiv(FSum(v), Int2F(Len(v)))

\* A slip of std: the population deviation (ddof = 0), which is 0 rather
\* than NaN for a single value.
std_population(s) ==
    LET v == dropna(s)
        m == mean(s)
        dev == [t \in 1..Len(v) |-> FMul(FSub(v[t], m), FSub(v[t], m))]
    IN  IF Len(v) = 0 THEN NaN
        ELSE FSqrt(FDiv(FSum(dev), Int2F(Len(v))))

\* Series.std(): sample standard deviation (ddof = 1) of the values that
\* are not NaN; NaN when fewer than two are left.
std(s) ==
    LET v == dropna(s)
        m == mean(s)
        dev == [t \in 1..Len(v) |-> FMul(FSub(v[t], m), FSub(v[t], m))]
    IN  IF Len(v) <= 1 THEN NaN
        ELSE FSqrt(FDiv(FSum(dev), Int2F(Len(v) - 1)))

\* ------------------------------------------------------ price series
WeekLen == 2

\* The k-th trading day of a calendar with one closed day after every
\* WeekLen trading days: the index is strictly increasing and gapped.
TradingDay(k) == k + (k - 1) \div WeekLen
LastDay == TradingDay(MaxLen)
Dates == 0..(LastDay + 1)

Pow2(e) == 2 ^ e
Closes == {Int2F(Pow2(e)) : e \in 0..MaxExp} \cup {NaN}

SeqsOf(S, lo, hi) == UNION {[1..k -> S] : k \in lo..hi}

FrameOf(c) == [index |-> [t \in 1..Len(c) |-> TradingDay(t)], Close |-> c]

\* Frames of full length with every close present.
CompleteFrames == {FrameOf(c) : c \in [1..MaxLen -> Closes \ {NaN}]}

PriceFrames == {FrameOf(c) : c \in SeqsOf(Closes, 2, MaxLen)}

VARIABLES
    price_data,        \* the frame the analyzer and the estimator read
    volatility,        \* the series handed to the analyzer's constructor
    pc,                \* the call in flight or last returned
    raised,            \* the exception the last call ended with, or "none"
    lambda_param, clean, squared_returns, ewma_var, i, result,
    log_returns,
    start_date, end_date, realized_vol,
    events, pre_window_days, post_window_days, impacts,
    summary

analyzer == <<price_data, volatility>>
\* The analyzer object: the two fields __init__ stores.
self == [price_data |-> price_data, volatility |-> volatility]
ewmaVars == <<lambda_param, clean, squared_returns, ewma_var, i, result>>
rvwVars == <<log_returns, start_date, end_date, realized_vol>>
eiaVars == <<events, pre_window_days, post_window_days, impacts>>
vars == <<analyzer, pc, raised, ewmaVars, rvwVars, eiaVars, summary>>

\* -------------------------------------------------- MacroEventAnalyzer
calculate_log_returns(obj) ==
    SeriesLog(SeriesDiv(obj.price_data.Close, shift(obj.price_data.Close)))

\* A slip of WindowMask: the end of the window is left out.
WindowMask_open_end(obj, start, end) ==
    [t \in 1..Len(obj.price_data.index) |->
        obj.price_data.index[t] >= start /\ obj.price_data.index[t] < end]

WindowMask(obj, start, end) ==
    [t \in 1..Len(obj.price_data.index) |->
        obj.price_data.index[t] >= start /\ obj.price_data.index[t] <= end]

\* A slip of realized_volatility_window: the figure is read from the
\* series handed to the constructor, as the mean of its values in the window.
realized_volatility_window_stored(obj, start, end) ==
    mean(SelectMask(obj.volatility.values,
                    [t \in 1..Len(obj.volatility.index) |->
                        obj.volatility.index[t] >= start
                        /\ obj.volatility.index[t] <= end]))

\* A slip of realized_volatility_window: a window too short for a
\* deviation gives 0 rather than the missing marker.
realized_volatility_window_fill(obj, start, end) ==
    LET window_returns == SelectMask(calculate_log_returns(obj),
                                     WindowMask(obj, start, end))
        dev == IF Len(window_returns) < 2 THEN NaN ELSE std(window_returns)
    IN  IF isnan(dev) THEN Zero
        ELSE FMul(dev, sqrt_252)

realized_volatility_window(obj, start, end) ==
    LET window_returns == SelectMask(calculate_log_returns(obj),
                                     WindowMask(obj, start, end))
    IN  IF Len(window_returns) < 2 THEN NaN
        ELSE FMul(std(window_returns), sqrt_252)

EventGet(event, key, default) ==
    IF key \in DOMAIN event THEN event[key] ELSE default

\* A slip of PctChange: the division is not guarded.
PctChange_unguarded(vol_change, pre_vol) ==
    FMul(FDiv(vol_change, pre_vol), Int2F(100))

PctChange(vol_change, pre_vol) ==
    IF FNe(pre_vol, Zero)
    THEN FMul(FDiv(vol_change, pre_vol), Int2F(100))
    ELSE NaN

\* One pass of the loop over events: the row appended to results.
EventRow(obj, event, pre_days, post_days) ==
    LET event_date == event.date
        pre_start == event_date - pre_days
        post_end == event_date + post_days
        pre_vol == realized_volatility_window(obj, pre_start, event_date)
        post_vol == realized_volatility_window(obj, event_date, post_end)
        vol_change == FSub(post_vol, pre_vol)
    IN  [event_date |-> event_date,
         event_name |-> event.name,
         event_type |-> EventGet(event, "type", "unknown"),
         pre_volatility |-> pre_vol,
         post_volatility |-> post_vol,
         volatility_change |-> vol_change,
         volatility_change_pct |-> PctChange(vol_change, pre_vol),
         pre_window_days |-> pre_days,
         post_window_days |-> post_days]

\* `row` put into `sorted` behind every row that is not later than it.
RECURSIVE InsertByDate(_, _)
InsertByDate(row, sorted) ==
    IF sorted = <<>> THEN <<row>>
    ELSE IF Head(sorted).event_date <= row.event_date
         THEN <<Head(sorted)>> \o InsertByDate(row, Tail(sorted))
         ELSE <<row>> \o sorted

\* A slip of sort_values: the rows are returned in the order appended.
sort_values_unsorted(rows) == rows

\* DataFrame.sort_values('event_date'): numpy's default sort, which sorts
\* a frame this short by insertion.
RECURSIVE sort_values(_)
sort_values(rows) ==
    IF rows = <<>> THEN <<>>
    ELSE InsertByDate(rows[Len(rows)], sort_values(SubSeq(rows, 1, Len(rows) - 1)))

EventSpecs ==
    {[date |-> d, name |-> "CPI Release", type |-> "inflation"] : d \in Dates}
    \cup {[date |-> d, name |-> "FOMC Meeting"] : d \in Dates}
EventLists == SeqsOf(EventSpecs, 0, MaxEvents)
ShortEventLists == SeqsOf(EventSpecs, 0, 1)
WindowDays == 0..MaxWindow

NoSeries == [index |-> <<>>, values |-> <<>>]

NoEwma ==
    /\ lambda_param = Zero /\ clean = FALSE /\ squared_returns = <<>>
    /\ ewma_var = <<>> /\ i = 0 /\ result = NoSeries
NoRvw ==
    /\ log_returns = <<>> /\ start_date = 0 /\ end_date = 0
    /\ realized_vol = NaN
NoEia ==
    /\ events = <<>> /\ pre_window_days = 0 /\ post_window_days = 0
    /\ impacts = <<>>
NoSummary == summary = <<>>

\* Once the caller has taken a call's value, its locals are gone.
ResetEwma ==
    /\ lambda_param' = Zero /\ clean' = FALSE /\ squared_returns' = <<>>
    /\ ewma_var' = <<>> /\ i' = 0 /\ result' = NoSeries
ResetRvw ==
    /\ log_returns' = <<>> /\ start_date' = 0 /\ end_date' = 0
    /\ realized_vol' = NaN
ResetEia ==
    /\ events' = <<>> /\ pre_window_days' = 0 /\ post_window_days' = 0
    /\ impacts' = <<>>
ResetSummary == summary' = <<>>

InitWith(frames) ==
    /\ price_data \in frames
    /\ volatility = NoSeries
    /\ pc = "idle"
    /\ raised = "none"
    /\ NoEwma /\ NoRvw /\ NoEia /\ NoSummary

Init == InitWith(PriceFrames)
InitEvents == InitWith(CompleteFrames)

\* The series a caller may hand the constructor as `volatility`: none, or
\* one figure per row of the frame.
VolatilitySeries(pd) ==
    {NoSeries,
     [index |-> pd.index, values |-> [t \in 1..Len(pd.index) |-> Int2F(1)]]}

\* Analyzers built on the complete frames with either volatility series.
InitVolatility ==
    /\ price_data \in CompleteFrames
    /\ volatility \in VolatilitySeries(price_data)
    /\ pc = "idle"
    /\ raised = "none"
    /\ NoEwma /\ NoRvw /\ NoEia /\ NoSummary

\* One call runs at a time; a call starts when none is in flight.
Idle == pc = "idle"

CalculateLogReturns ==
    /\ Idle
    /\ log_returns' = calculate_log_returns(self)
    /\ pc' = "clr_done"
    /\ raised' = "none"
    /\ UNCHANGED <<analyzer, ewmaVars, start_date, end_date, realized_vol,
                   eiaVars, summary>>

RealizedVolatilityWindow ==
    /\ Idle
    /\ \E start \in Dates, end \in Dates :
        /\ start_date' = start
        /\ end_date' = end
        /\ realized_vol' = realized_volatility_window(self, start, end)
    /\ pc' = "rvw_done"
    /\ raised' = "none"
    /\ UNCHANGED <<analyzer, ewmaVars, log_returns, eiaVars, summary>>

\* event_impact_analysis on one of `lists`, with window days from `days`.
\* pd.DataFrame([]) has no columns, so sorting it by 'event_date' raises
\* KeyError; otherwise the sorted frame is returned.
EventImpactAnalysisOn(lists, days) ==
    /\ Idle
    /\ \E ev \in lists, pre \in days, post \in days :
        LET results == [k \in 1..Len(ev) |-> EventRow(self, ev[k], pre, post)]
        IN  /\ events' = ev
            /\ pre_window_days' = pre
            /\ post_window_days' = post
            /\ IF results = <<>>
               THEN impacts' = <<>> /\ raised' = "KeyError"
               ELSE impacts' = sort_values(results) /\ raised' = "none"
    /\ pc' = "eia_done"
    /\ UNCHANGED <<analyzer, ewmaVars, rvwVars, summary>>

\* Calls with at most one event and any window days.
EventImpactAnalysisOne == EventImpactAnalysisOn(ShortEventLists, WindowDays)
\* Calls with up to MaxEvents events and the same window either side, as
\* the default arguments give.
EventImpactAnalysis == EventImpactAnalysisOn(EventLists, {MaxWindow})

Column(rows, name) == [k \in 1..Len(rows) |-> rows[k][name]]
unique(col) == {col[k] : k \in 1..Len(col)}

\* A slip of SummaryOf: a missing change is counted as an increase.
SummaryOf_nan_positive(event_impacts_df) ==
    [event_type \in unique(Column(event_impacts_df, "event_type")) |->
        LET subset == SelectMask(event_impacts_df,
                        [k \in 1..Len(event_impacts_df) |->
                            event_impacts_df[k].event_type = event_type])
            change == Column(subset, "volatility_change")
            positive == SelectMask(change,
                          [k \in 1..Len(change) |-> ~FGe(Zero, change[k])])
        IN  [count |-> Len(subset),
             avg_pre_vol |-> mean(Column(subset, "pre_volatility")),
             avg_post_vol |-> mean(Column(subset, "post_volatility")),
             avg_vol_change |-> mean(change),
             avg_vol_change_pct |-> mean(Column(subset, "volatility_change_pct")),
             vol_increase_frequency |->
                 FDiv(Int2F(Len(positive)), Int2F(Len(subset)))]]

SummaryOf(event_impacts_df) ==
    [event_type \in unique(Column(event_impacts_df, "event_type")) |->
        LET subset == SelectMask(event_impacts_df,
                        [k \in 1..Len(event_impacts_df) |->
                            event_impacts_df[k].event_type = event_type])
            change == Column(subset, "volatility_change")
            positive == SelectMask(change,
                          [k \in 1..Len(change) |-> FGt(change[k], Zero)])
        IN  [count |-> Len(subset),
             avg_pre_vol |-> mean(Column(subset, "pre_volatility")),
             avg_post_vol |-> mean(Column(subset, "post_volatility")),
             avg_vol_change |-> mean(change),
             avg_vol_change_pct |-> mean(Column(subset, "volatility_change_pct")),
             vol_increase_frequency |->
                 FDiv(Int2F(Len(positive)), Int2F(Len(subset)))]]

\* event_summary_statistics on the table event_impact_analysis returned.
EventSummaryStatistics ==
    /\ pc = "eia_done" /\ raised = "none"
    /\ summary' = SummaryOf(impacts)
    /\ pc' = "ess_done"
    /\ raised' = "none"
    /\ UNCHANGED <<analyzer, ewmaVars, rvwVars, eiaVars>>

\* ------------------------------------------------------------- EWMA
Lambdas == {Frac(k, LambdaDen) : k \in (-1)..(LambdaDen + 1)}

\* get_estimator up to the loop: the squared returns and their copy.
EwmaStart ==
    /\ Idle
    /\ \E lam \in Lambdas, cl \in BOOLEAN :
        /\ lambda_param' = lam
        /\ clean' = cl
    /\ LET log_return == SeriesLog(SeriesDiv(price_data.Close,
                                             shift(price_data.Close)))
       IN  /\ squared_returns' = SeriesSquare(log_return)
           /\ ewma_var' = SeriesSquare(log_return)
    /\ i' = 1
    /\ pc' = "ewma_loop"
    /\ raised' = "none"
    /\ UNCHANGED <<analyzer, result, rvwVars, eiaVars, summary>>

\* A slip of EwmaUpdate: the previous squared return stands in for the
\* previous variance, as a vectorised form of the recurrence would have it.
EwmaUpdate_vectorised(lam, var, sq, k) ==
    FAdd(FMul(lam, sq[k]), FMul(FSub(Int2F(1), lam), sq[k + 1]))

\* A slip of EwmaUpdate: the new squared return is taken off, not added.
EwmaUpdate_minus(lam, var, sq, k) ==
    FSub(FMul(lam, var[k]), FMul(FSub(Int2F(1), lam), sq[k + 1]))

\* The value the loop body stores at position i (Python's index; the
\* sequences here are 1-based, so iloc[i] is [i + 1]).
EwmaUpdate(lam, var, sq, k) ==
    FAdd(FMul(lam, var[k]), FMul(FSub(Int2F(1), lam), sq[k + 1]))

\* A slip of EwmaBody: a skipped update stores the missing marker.
EwmaBody_propagate(lam, var, sq, k) ==
    IF ~isnan(sq[k]) /\ ~isnan(var[k])
    THEN [var EXCEPT ![k + 1] =
            FAdd(FMul(lam, var[k]), FMul(FSub(Int2F(1), lam), sq[k + 1]))]
    ELSE [var EXCEPT ![k + 1] = NaN]

EwmaBody(lam, var, sq, k) ==
    IF ~isnan(sq[k]) /\ ~isnan(var[k])
    THEN [var EXCEPT ![k + 1] = EwmaUpdate(lam, var, sq, k)]
    ELSE var

\* A slip of EwmaIteration: ewma_var is bound to squared_returns itself
\* (no copy), so the store lands in both.
EwmaIteration_aliased(lam, var, sq, k) ==
    [squared_returns |-> EwmaBody(lam, var, sq, k),
     ewma_var |-> EwmaBody(lam, var, sq, k)]

\* One pass of the loop over the two local series: ewma_var is the copy
\* made before the loop, so the store reaches it alone.
EwmaIteration(lam, var, sq, k) ==
    [squared_returns |-> sq, ewma_var |-> EwmaBody(lam, var, sq, k)]

EwmaStep ==
    /\ pc = "ewma_loop"
    /\ i < Len(squared_returns)
    /\ LET after == EwmaIteration(lambda_param, ewma_var, squared_returns, i)
       IN  /\ ewma_var' = after.ewma_var
           /\ squared_returns' = after.squared_returns
    /\ i' = i + 1
    /\ UNCHANGED <<analyzer, pc, raised, lambda_param, clean,
                   result, rvwVars, eiaVars, summary>>

Annualize(var, trading_periods) ==
    [t \in 1..Len(var) |->
        FMul(FSqrt(var[t]), FSqrt(Int2F(trading_periods)))]

\* The series returned: the values with their index labels, the NaN rows
\* dropped when clean.
EwmaResult(pd, var, cl, trading_periods) ==
    LET vol == Annualize(var, trading_periods)
        keep == [t \in 1..Len(vol) |-> ~cl \/ ~isnan(vol[t])]
    IN  [index |-> SelectMask(pd.index, keep), values |-> SelectMask(vol, keep)]

EwmaReturn ==
    /\ pc = "ewma_loop"
    /\ i >= Len(squared_returns)
    /\ result' = EwmaResult(price_data, ewma_var, clean, DefaultTradingPeriods)
    /\ pc' = "ewma_done"
    /\ UNCHANGED <<analyzer, raised, lambda_param, clean, squared_returns,
                   ewma_var, i, rvwVars, eiaVars, summary>>

\* The caller takes the return value; the next call starts afresh.
Return ==
    /\ pc \in {"clr_done", "rvw_done", "eia_done", "ess_done", "ewma_done"}
    /\ pc' = "idle"
    /\ raised' = "none"
    /\ ResetEwma /\ ResetRvw /\ ResetEia /\ ResetSummary
    /\ UNCHANGED analyzer

NextAnalyzer ==
    \/ CalculateLogReturns
    \/ RealizedVolatilityWindow
    \/ EventImpactAnalysisOne
    \/ EventSummaryStatistics
    \/ Return

NextEvents ==
    \/ EventImpactAnalysis
    \/ EventSummaryStatistics
    \/ Return

NextEWMA ==
    \/ EwmaStart
    \/ EwmaStep
    \/ EwmaReturn
    \/ Return

Next == NextAnalyzer \/ NextEWMA

\* Every frame; calls with at most one event and any window days.
SpecAnalyzer == Init /\ [][NextAnalyzer]_vars
\* Complete frames of full length; calls with up to MaxEvents events and
\* the same window either side.
SpecEvents == InitEvents /\ [][NextEvents]_vars
SpecEWMA == Init /\ [][NextEWMA]_vars
\* The analyzer's calls on analyzers that differ in the volatility stored.
SpecVolatility == InitVolatility /\ [][NextAnalyzer]_vars
\* Every call of either module, on analyzers with either volatility series.
Spec == InitVolatility /\ [][Next]_vars

\* ------------------------------------------------------------ claims
One == Int2F(1)
Rows == 1..Len(impacts)
Positions == 1..Len(price_data.Close)
EiaReturned == pc \in {"eia_done", "ess_done"} /\ raised = "none"

\* Every close present and positive, at least two of them.
ValidFrame ==
    /\ Len(price_data.Close) >= 2
    /\ \A t \in Positions : IsFinite(price_data.Close[t]) /\ price_data.Close[t].n > 0

\* The rows of the frame that carry a defined log return and lie in [start, end].
ValidReturnsIn(start, end) ==
    {t \in Positions :
        /\ t >= 2
        /\ ~isnan(price_data.Close[t]) /\ ~isnan(price_data.Close[t - 1])
        /\ start <= price_data.index[t] /\ price_data.index[t] <= end}

\* C1: the records event_impact_analysis returns are in ascending order of
\* event_date, whatever the order of the events passed: of two adjacent
\* records the earlier one's date is not after the later one's.
C1_SortedByDate ==
    EiaReturned =>
        \A k \in Rows : k + 1 \in Rows =>
            impacts[k].event_date <= impacts[k + 1].event_date

\* Three events passed in mixed order (the middle first, then the earliest,
\* then the latest) and returned.
C1_Witness ==
    /\ pc = "eia_done" /\ raised = "none"
    /\ Len(events) = 3
    /\ events[2].date < events[1].date /\ events[1].date < events[3].date
    /\ impacts[1].event_date = events[2].date
    /\ impacts[3].event_date = events[3].date

\* C2: event_impact_analysis returns exactly one record per input event,
\* for every list of events, the empty list included.
C2_OneRecordPerEvent ==
    pc = "eia_done" => (raised = "none" /\ Len(impacts) = Len(events))

\* C3: realized_volatility_window returns the missing-value marker and does
\* not raise whenever fewer than two defined log returns lie in the window.
C3_ShortWindowIsMissing ==
    (pc = "rvw_done" /\ Cardinality(ValidReturnsIn(start_date, end_date)) < 2) =>
        (isnan(realized_vol) /\ raised = "none")

\* The window covers exactly the first two rows, both closes present: two
\* rows are selected but only one return is defined.
C3_Witness ==
    /\ pc = "rvw_done"
    /\ start_date = price_data.index[1] /\ end_date = price_data.index[2]
    /\ IsFinite(price_data.Close[1]) /\ IsFinite(price_data.Close[2])
    /\ Cardinality(ValidReturnsIn(start_date, end_date)) = 1
    /\ isnan(realized_vol)

\* C4: in every record, a pre_volatility of 0 gives a missing
\* volatility_change_pct, and a defined non-zero pre_volatility gives
\* (post_volatility - pre_volatility) / pre_volatility * 100.
C4_PctChangeGuarded ==
    EiaReturned =>
        \A k \in Rows :
            LET pre == impacts[k].pre_volatility
                post == impacts[k].post_volatility
                pct == impacts[k].volatility_change_pct
            IN  /\ pre = Zero => isnan(pct)
                /\ (IsFinite(pre) /\ pre # Zero) =>
                      pct = FMul(FDiv(FSub(post, pre), pre), Int2F(100))

\* A record whose pre-window is flat (pre_volatility 0) and whose
\* post-window moves: the unguarded quotient would be infinite.
C4_Witness ==
    /\ EiaReturned
    /\ \E k \in Rows :
        /\ impacts[k].pre_volatility = Zero
        /\ FGt(impacts[k].post_volatility, Zero)
        /\ isnan(impacts[k].volatility_change_pct)

\* C5: event_impact_analysis called (with at least one event) with
\* pre_window_days <= 0 or post_window_days <= 0 fails with
\* InvalidParameterError and returns no records.
C5_NonPositiveWindowRejected ==
    (pc = "eia_done" /\ events # <<>>
        /\ (pre_window_days <= 0 \/ post_window_days <= 0)) =>
        (raised = "InvalidParameterError" /\ impacts = <<>>)

\* C6: get_estimator called with lambda_param outside the open interval
\* (0, 1) fails with InvalidParameterError and produces no series.
C6_InvalidLambdaRejected ==
    (pc = "ewma_done" /\ ~(FGt(lambda_param, Zero) /\ FGt(One, lambda_param))) =>
        (raised = "InvalidParameterError" /\ result = NoSeries)

\* C7: for a frame with every close present, the scan leaves var[0]
\* missing, var[1] = squared_return[1], and at every later position t it
\* has passed, var[t] = lambda * var[t-1] + (1 - lambda) * squared_return[t]
\* with var[t-1] as the scan left it.  (Position t of the code is t + 1 here.)
C7_Recurrence ==
    (pc \in {"ewma_loop", "ewma_done"} /\ ValidFrame) =>
        /\ isnan(ewma_var[1])
        /\ ewma_var[2] = squared_returns[2] /\ IsFinite(ewma_var[2])
        /\ \A t \in 3..i :
            ewma_var[t] = FAdd(FMul(lambda_param, ewma_var[t - 1]),
                               FMul(FSub(One, lambda_param), squared_returns[t]))

\* A finished scan of a full frame in which the updated variance differs
\* from the squared return it replaced, so the next step tells them apart.
C7_Witness ==
    /\ pc = "ewma_done" /\ ValidFrame
    /\ Len(ewma_var) >= 4
    /\ FGt(lambda_param, Zero) /\ FGt(One, lambda_param)
    /\ ewma_var[3] # squared_returns[3]
    /\ ewma_var[4] # squared_returns[4]

\* C8 as stated: at every position t >= 1 where squared_return[t-1] or
\* var[t-1] is missing, var[t] is missing (for a lambda_param in (0, 1)).
C8_MissingCarriedForward ==
    (pc = "ewma_done" /\ FGt(lambda_param, Zero) /\ FGt(One, lambda_param)) =>
        \A t \in 2..Len(ewma_var) :
            (isnan(squared_returns[t - 1]) \/ isnan(ewma_var[t - 1])) =>
                isnan(ewma_var[t])

\* C8 as amended: at every position t >= 1 the scan has passed where
\* squared_return[t-1] or var[t-1] is missing, the update is skipped and
\* var[t] keeps squared_return[t], its initial value.
C8_SkippedKeepsSquaredReturn ==
    pc \in {"ewma_loop", "ewma_done"} =>
        \A t \in 2..Len(ewma_var) :
            (isnan(squared_returns[t - 1]) \/ isnan(ewma_var[t - 1])) =>
                ewma_var[t] = squared_returns[t]

\* A finished scan over a gap: the position after a missing squared return
\* holds its own, defined, squared return.
C8_Witness ==
    /\ pc = "ewma_done"
    /\ \E t \in 3..Len(ewma_var) :
        /\ isnan(squared_returns[t - 1]) /\ isnan(ewma_var[t - 1])
        /\ IsFinite(ewma_var[t]) /\ ewma_var[t] = squared_returns[t]

TypesPresent == {impacts[k].event_type : k \in Rows}
RowsOfType(ty) == {k \in Rows : impacts[k].event_type = ty}
IncreasesOfType(ty) ==
    {k \in RowsOfType(ty) :
        /\ ~isnan(impacts[k].volatility_change)
        /\ impacts[k].volatility_change.n > 0}

RECURSIVE SumCounts(_)
SumCounts(types) ==
    IF types = {} THEN 0
    ELSE LET ty == CHOOSE x \in types : TRUE
         IN  summary[ty].count + SumCounts(types \ {ty})

\* C9: the keys of the summary are exactly the event types present in the
\* records; each count is the number of records of the type and the counts
\* add up to the number of records; each vol_increase_frequency is the
\* share of the type's records with a defined positive volatility_change,
\* and lies in [0, 1].
C9_SummaryGroups ==
    pc = "ess_done" =>
        /\ DOMAIN summary = TypesPresent
        /\ \A ty \in TypesPresent :
            /\ summary[ty].count = Cardinality(RowsOfType(ty))
            /\ summary[ty].vol_increase_frequency =
                   Frac(Cardinality(IncreasesOfType(ty)), Cardinality(RowsOfType(ty)))
            /\ FGe(summary[ty].vol_increase_frequency, Zero)
            /\ FGe(One, summary[ty].vol_increase_frequency)
        /\ SumCounts(TypesPresent) = Len(impacts)

\* Two types summarised; one has two records, one with a rise and one with
\* a missing change, so its frequency is 1/2.
C9_Witness ==
    /\ pc = "ess_done"
    /\ Cardinality(DOMAIN summary) = 2
    /\ \E ty \in DOMAIN summary :
        /\ summary[ty].count = 2
        /\ summary[ty].vol_increase_frequency = Frac(1, 2)
        /\ \E k \in RowsOfType(ty) : isnan(impacts[k].volatility_change)

\* C10: for a frame with at least two closes, all present and positive, the
\* log returns are as many as the closes, the first is missing, and every
\* later one is defined and equals ln(close[t] / close[t-1]).
C10_LogReturns ==
    (pc = "clr_done" /\ ValidFrame) =>
        /\ Len(log_returns) = Len(price_data.Close)
        /\ isnan(log_returns[1])
        /\ \A t \in Positions : t >= 2 =>
            /\ IsFinite(log_returns[t])
            /\ log_returns[t] =
                   FLog(FDiv(price_data.Close[t], price_data.Close[t - 1]))

\* The returns of a frame that rises and then falls.
C10_Witness ==
    /\ pc = "clr_done" /\ ValidFrame
    /\ Len(log_returns) >= 3
    /\ log_returns[2] = Int2F(1)
    /\ log_returns[3] = Int2F(-1)

\* C11: with lambda_param strictly between 0 and 1, the running variance
\* is never negative where it is defined, at any step of the scan, and no
\* defined value of the returned series is negative.
C11_VarianceNonNegative ==
    (pc \in {"ewma_loop", "ewma_done"}
     /\ FGt(lambda_param, Zero) /\ FGt(One, lambda_param)) =>
        /\ \A t \in 1..Len(ewma_var) :
              isnan(ewma_var[t]) \/ FGe(ewma_var[t], Zero)
        /\ \A t \in 1..Len(result.values) :
              isnan(result.values[t]) \/ FGe(result.values[t], Zero)

\* A finished scan with a valid lambda in which the recurrence stored a
\* positive variance other than the squared return, and a positive
\* volatility came out.
C11_Witness ==
    /\ pc = "ewma_done"
    /\ FGt(lambda_param, Zero) /\ FGt(One, lambda_param)
    /\ \E t \in 1..Len(ewma_var) :
          /\ ~isnan(ewma_var[t])
          /\ ewma_var[t] # squared_returns[t]
          /\ FGt(ewma_var[t], Zero)
    /\ \E t \in 1..Len(result.values) : FGt(result.values[t], Zero)

\* The analyzer built on the same prices with another volatility series.
OtherAnalyzer(v) == [price_data |-> price_data, volatility |-> v]

\* C12: the value realized_volatility_window returned and the records
\* event_impact_analysis returned are what an analyzer built on the same
\* price series with any other volatility series returns for the same
\* call.
C12_IndependentOfVolatility ==
    \A v \in VolatilitySeries(price_data) \ {volatility} :
        /\ pc = "rvw_done" =>
              realized_vol =
                realized_volatility_window(OtherAnalyzer(v), start_date,
                                           end_date)
        /\ EiaReturned =>
              impacts =
                sort_values([k \in 1..Len(events) |->
                    EventRow(OtherAnalyzer(v), events[k], pre_window_days,
                             post_window_days)])

\* An analyzer holding a volatility series has returned a record whose
\* two volatilities are defined and differ.
C12_Witness ==
    /\ volatility # NoSeries
    /\ EiaReturned
    /\ \E k \in Rows :
        /\ IsFinite(impacts[k].pre_volatility)
        /\ IsFinite(impacts[k].post_volatility)
        /\ impacts[k].volatility_change # Zero

\* C13: no step of any call changes what the caller passed in: the price
\* series and the stored volatility series stay as they are throughout,
\* a pass of the EWMA loop leaves the squared returns as they were (the
\* store goes to the copy), and event_summary_statistics leaves the events
\* list and the records table it was given as they were.
C13_InputsUnchanged ==
    [][/\ price_data' = price_data
       /\ volatility' = volatility
       /\ (pc = "ewma_loop" => squared_returns' = squared_returns)
       /\ (pc = "eia_done" /\ pc' = "ess_done" =>
             events' = events /\ impacts' = impacts)]_vars

\* A finished scan that stored into its copy: the running variance differs
\* from the squared returns, which are still those of the price series, and
\* the analyzer still holds its volatility series.
C13_Witness ==
    /\ pc = "ewma_done"
    /\ volatility # NoSeries
    /\ ewma_var # squared_returns
    /\ squared_returns = SeriesSquare(calculate_log_returns(self))

\* The rows of the frame stamped with a date from a to b, both included;
\* the log returns of a set of rows, in the order of the frame; and the
\* annualised deviation of the returns of a set of rows.
RowsStamped(a, b) ==
    {t \in Positions : a <= price_data.index[t] /\ price_data.index[t] <= b}
ReturnsAt(rows) ==
    SelectMask(calculate_log_returns(self), [t \in Positions |-> t \in rows])
VolatilityOver(rows) ==
    IF Cardinality(rows) < 2 THEN NaN
    ELSE FMul(std(ReturnsAt(rows)), sqrt_252)

\* C14: realized_volatility_window(start, end) is the volatility of
\* exactly the log returns stamped start..end, both ends included; so in
\* every record of event_impact_analysis the pre-volatility is that of the
\* returns from event_date - pre_window_days to event_date and the
\* post-volatility that of the returns from event_date to
\* event_date + post_window_days, the return of the event date in both.
C14_WindowInclusive ==
    /\ pc = "rvw_done" =>
          realized_vol = VolatilityOver(RowsStamped(start_date, end_date))
    /\ EiaReturned =>
          \A k \in Rows :
            LET d == impacts[k].event_date
            IN  /\ impacts[k].pre_volatility =
                      VolatilityOver(RowsStamped(d - pre_window_days, d))
                /\ impacts[k].post_volatility =
                      VolatilityOver(RowsStamped(d, d + post_window_days))

\* An event on a trading day whose pre-window and post-window each hold
\* two defined returns, the event date's among them: both volatilities
\* are defined only because that return counts on either side.
C14_Witness ==
    /\ EiaReturned
    /\ \E k \in Rows :
        LET d == impacts[k].event_date
        IN  /\ \E t \in Positions : t >= 2 /\ price_data.index[t] = d
            /\ Cardinality(ValidReturnsIn(d - pre_window_days, d)) = 2
            /\ Cardinality(ValidReturnsIn(d, d + post_window_days)) = 2
            /\ IsFinite(impacts[k].pre_volatility)
            /\ IsFinite(impacts[k].post_volatility)

\* C15: in a call with at least one event nothing is raised and every
\* event has its record; a record's pre_volatility (post_volatility) is
\* missing exactly when its own pre-window (post-window) holds fewer than
\* two defined returns, and then its volatility_change and
\* volatility_change_pct are missing too; a record whose two windows each
\* hold two defined returns has both volatilities and their difference
\* defined, whatever the other events of the call are.
C15_ShortWindowRecord ==
    (pc \in {"eia_done", "ess_done"} /\ events # <<>>) =>
        /\ raised = "none"
        /\ Len(impacts) = Len(events)
        /\ \A k \in Rows :
            LET r == impacts[k]
                d == r.event_date
                shortPre ==
                    Cardinality(ValidReturnsIn(d - pre_window_days, d)) < 2
                shortPost ==
                    Cardinality(ValidReturnsIn(d, d + post_window_days)) < 2
            IN  /\ isnan(r.pre_volatility) <=> shortPre
                /\ isnan(r.post_volatility) <=> shortPost
                /\ (shortPre \/ shortPost) =>
                      /\ isnan(r.volatility_change)
                      /\ isnan(r.volatility_change_pct)
                /\ ~(shortPre \/ shortPost) =>
                      /\ IsFinite(r.pre_volatility)
                      /\ IsFinite(r.post_volatility)
                      /\ r.volatility_change =
                            FSub(r.post_volatility, r.pre_volatility)

\* One call returned a record with a missing pre_volatility, a record
\* with a pre_volatility of 0 and a missing post_volatility, and a record
\* with every figure defined.
C15_Witness ==
    /\ EiaReturned
    /\ \E j, k, m \in Rows :
        /\ isnan(impacts[j].pre_volatility)
        /\ isnan(impacts[j].volatility_change_pct)
        /\ impacts[k].pre_volatility = Zero
        /\ isnan(impacts[k].post_volatility)
        /\ isnan(impacts[k].volatility_change_pct)
        /\ IsFinite(impacts[m].pre_volatility)
        /\ IsFinite(impacts[m].post_volatility)
        /\ IsFinite(impacts[m].volatility_change)

====
